---- MODULE Spec2Model ----
(***************************************************************************)
(* Model of the sleep recorder in src/main.py: main() drives               *)
(* record_audio -> normalize_audio -> (noise reduction) -> save_recording  *)
(* -> play_audio.  The program is single threaded; the only asynchrony is  *)
(* the KeyboardInterrupt that the interpreter may raise between any two    *)
(* bytecodes, and the failures of the device, the file system and the      *)
(* playback device.  A KeyboardInterrupt outside record_audio is caught by *)
(* nothing and ends the program; it is left out of the model.              *)
(*                                                                         *)
(* A chunk is identified by the index of the stream.read call that         *)
(* returned it; a buffer is the sequence of its chunks plus the list of    *)
(* processing stages applied to it.  The arithmetic of normalize_audio is  *)
(* modelled separately on sample sequences (NormSpec).                     *)
(***************************************************************************)
EXTENDS Integers, Sequences, FiniteSets

\* ---------------------------------------------------------------- bounds
MaxMinutes == 2      \* largest number of minutes typed at the prompt
MaxClock == 1        \* clock readings are 0..MaxClock
MaxLen == 3          \* longest sample sequence given to normalize_audio
MaxAmp == 2          \* samples given to normalize_audio are -MaxAmp..MaxAmp

\* ------------------------------------------------------ program constants
SAMPLE_RATE == 16000
CHUNK == 512
MIN_DURATION == 60

\* what is typed at the prompt: below the minimum, the minimum, and above it
MinutesInputs == {0, 1, MaxMinutes}
Times == 0 .. MaxClock

VARIABLES
    pc,          \* position of the control thread
    minutes,     \* the integer typed at the prompt ("none" before)
    duration,    \* main's duration after the clamp
    audio,       \* record_audio's accumulator: bound or not, and its list of chunks
    data,        \* the chunk returned by the last stream.read (0: none)
    nread,       \* number of stream.read calls that have returned
    nissued,     \* number of stream.read calls issued
    streams,     \* number of input streams currently open
    cancel_pc,   \* where KeyboardInterrupt was raised in record_audio ("none")
    ra_outcome,  \* how record_audio ended: "none","completed","cancelled","raised"
    raw_audio,   \* main's raw_audio
    clean_audio, \* main's clean_audio
    timestamp,   \* save_recording's timestamp (-1 before)
    attempted,   \* artifacts whose write has been started
    files,       \* artifacts written: records [path, content]
    report,      \* the summaries main has printed: "saved", "error"
    err,         \* the exception that reached main's handler ("none")
    nbuf,        \* NormSpec: the sample sequence given to normalize_audio
    nres,        \* NormSpec: what normalize_audio produced
    npc          \* NormSpec: "idle","called"

vars == <<pc, minutes, duration, audio, data, nread, nissued, streams,
          cancel_pc, ra_outcome, raw_audio, clean_audio, timestamp,
          attempted, files, report, err, nbuf, nres, npc>>

normVars == <<nbuf, nres, npc>>
recVars == <<audio, data, nread, nissued, streams, cancel_pc, ra_outcome>>
saveVars == <<timestamp, attempted, files>>

\* ------------------------------------------------------------- helpers
NoBuffer == [chunks |-> <<>>, stages |-> <<"unset">>]

\* int(x) of Python for the quotient n/d, d > 0: truncation toward zero
py_int(n, d) == IF n >= 0 THEN n \div d ELSE 0 - ((0 - n) \div d)

\* lines 147-149 of main: requests below one minute are raised to 60 s
clamp_duration(d) == IF d < MIN_DURATION THEN MIN_DURATION ELSE d

\* range(int(duration * SAMPLE_RATE / 512)): number of loop iterations
total_chunks_one_more(d) ==
    LET n == py_int(d * SAMPLE_RATE, CHUNK) IN IF n < 0 THEN 0 ELSE n + 1
total_chunks(d) ==
    LET n == py_int(d * SAMPLE_RATE, CHUNK) IN IF n < 0 THEN 0 ELSE n

\* np.concatenate(audio): raises ValueError on an empty list
concat_raises(a) == a = <<>>
np_concatenate(a) == [chunks |-> a, stages |-> <<>>]

\* the with statement's __exit__: the stream is stopped and closed
InputStream_exit_leak(n) == n
InputStream_exit(n) == n - 1

\* except Exception of record_audio (lines 60-62): log and re-raise
record_audio_swallow(a) == [reraise |-> FALSE, value |-> np_concatenate(a)]
record_audio_except(a) == [reraise |-> TRUE, value |-> NoBuffer]

\* number of samples of a buffer: every chunk holds CHUNK frames
BufLen(b) == Len(b.chunks) * CHUNK

\* the four artifact paths of save_recording for one timestamp
Artifacts == {"raw_wav", "clean_wav", "spec_raw", "spec_clean"}
save_paths_restamped(ts) ==
    [raw_wav |-> <<"data/raw", "raw_", ts>>,
     clean_wav |-> <<"data/clean", "clean_", ts>>,
     spec_raw |-> <<"data/spectrograms", "spectrogram_raw_", ts + 1>>,
     spec_clean |-> <<"data/spectrograms", "spectrogram_clean_", ts + 1>>]
save_paths(ts) ==
    [raw_wav |-> <<"data/raw", "raw_", ts>>,
     clean_wav |-> <<"data/clean", "clean_", ts>>,
     spec_raw |-> <<"data/spectrograms", "spectrogram_raw_", ts>>,
     spec_clean |-> <<"data/spectrograms", "spectrogram_clean_", ts>>]

\* what an artifact is written from
Content(which, b) == [var |-> which, nchunks |-> Len(b.chunks), stages |-> b.stages]

\* ---------------------------------------------------------------- Init
Init ==
    /\ pc = "input"
    /\ minutes = "none"
    /\ duration = 0
    /\ audio = [bound |-> FALSE, list |-> <<>>]
    /\ data = 0
    /\ nread = 0
    /\ nissued = 0
    /\ streams = 0
    /\ cancel_pc = "none"
    /\ ra_outcome = "none"
    /\ raw_audio = NoBuffer
    /\ clean_audio = NoBuffer
    /\ timestamp = 0 - 1
    /\ attempted = {}
    /\ files = {}
    /\ report = <<>>
    /\ err = "none"
    /\ nbuf = <<>>
    /\ nres = [raised |-> FALSE, value |-> <<>>]
    /\ npc = "idle"

\* main's except Exception (lines 165-166): one error summary
MainError(e) ==
    /\ pc' = "error"
    /\ report' = Append(report, "error")
    /\ err' = e

\* ------------------------------------------------------------- main, input
\* line 146 with an integer typed, then the clamp of lines 147-149
InputMinutes ==
    /\ pc = "input"
    /\ \E m \in MinutesInputs :
         /\ minutes' = m
         /\ duration' = clamp_duration(m * 60)
    /\ pc' = "ra_start"
    /\ UNCHANGED <<report, err, raw_audio, clean_audio>>
    /\ UNCHANGED recVars /\ UNCHANGED saveVars /\ UNCHANGED normVars

\* line 146 with something that is not an integer: int() raises ValueError
InputInvalid ==
    /\ pc = "input"
    /\ MainError("ValueError")
    /\ UNCHANGED <<minutes, duration, raw_audio, clean_audio>>
    /\ UNCHANGED recVars /\ UNCHANGED saveVars /\ UNCHANGED normVars

\* ------------------------------------------------------------ record_audio
\* lines 45-48: log, print, audio = []
RecordBegin ==
    /\ pc = "ra_start"
    /\ audio' = [bound |-> TRUE, list |-> <<>>]
    /\ pc' = "ra_open"
    /\ UNCHANGED <<minutes, duration, data, nread, nissued, streams, cancel_pc,
                   ra_outcome, raw_audio, clean_audio, report, err>>
    /\ UNCHANGED saveVars /\ UNCHANGED normVars

\* line 49: the stream is opened and started
OpenStream ==
    /\ pc = "ra_open"
    /\ streams' = streams + 1
    /\ pc' = "ra_read"
    /\ UNCHANGED <<minutes, duration, audio, data, nread, nissued, cancel_pc,
                   ra_outcome, raw_audio, clean_audio, report, err>>
    /\ UNCHANGED saveVars /\ UNCHANGED normVars

\* what record_audio's except Exception does with an exception e
RecordException(e, a) ==
    LET h == record_audio_except(a) IN
    IF h.reraise
    THEN /\ MainError(e)
         /\ ra_outcome' = "raised"
         /\ UNCHANGED raw_audio
    ELSE /\ pc' = "normalize"
         /\ raw_audio' = h.value
         /\ ra_outcome' = "raised"
         /\ UNCHANGED <<report, err>>

\* line 49: the stream cannot be opened (PortAudioError)
OpenError ==
    /\ pc = "ra_open"
    /\ RecordException("DeviceError", audio.list)
    /\ UNCHANGED <<minutes, duration, audio, data, nread, nissued, streams,
                   cancel_pc, clean_audio>>
    /\ UNCHANGED saveVars /\ UNCHANGED normVars

\* line 51: one more iteration, stream.read(512) returns a chunk
ReadReturn ==
    /\ pc = "ra_read"
    /\ Len(audio.list) < total_chunks(duration)
    /\ nissued' = nissued + 1
    /\ nread' = nread + 1
    /\ data' = nread + 1
    /\ pc' = "ra_append"
    /\ UNCHANGED <<minutes, duration, audio, streams, cancel_pc, ra_outcome,
                   raw_audio, clean_audio, report, err>>
    /\ UNCHANGED saveVars /\ UNCHANGED normVars

\* line 51: stream.read fails; the with statement closes the stream
ReadError ==
    /\ pc = "ra_read"
    /\ Len(audio.list) < total_chunks(duration)
    /\ nissued' = nissued + 1
    /\ streams' = InputStream_exit(streams)
    /\ RecordException("DeviceError", audio.list)
    /\ UNCHANGED <<minutes, duration, audio, data, nread, cancel_pc, clean_audio>>
    /\ UNCHANGED saveVars /\ UNCHANGED normVars

\* lines 52-54: the chunk is appended, the level bar is printed
AppendChunk ==
    /\ pc = "ra_append"
    /\ audio' = [audio EXCEPT !.list = Append(@, data)]
    /\ pc' = "ra_read"
    /\ UNCHANGED <<minutes, duration, data, nread, nissued, streams, cancel_pc,
                   ra_outcome, raw_audio, clean_audio, report, err>>
    /\ UNCHANGED saveVars /\ UNCHANGED normVars

\* lines 50, 56: the range is exhausted, the stream is closed, the
\* chunks are concatenated and returned to line 152 of main
LoopExit ==
    /\ pc = "ra_read"
    /\ Len(audio.list) >= total_chunks(duration)
    /\ streams' = InputStream_exit(streams)
    /\ IF concat_raises(audio.list)
       THEN RecordException("ValueError", audio.list)
       ELSE /\ raw_audio' = np_concatenate(audio.list)
            /\ ra_outcome' = "completed"
            /\ pc' = "normalize"
            /\ UNCHANGED <<report, err>>
    /\ UNCHANGED <<minutes, duration, audio, data, nread, nissued, cancel_pc,
                   clean_audio>>
    /\ UNCHANGED saveVars /\ UNCHANGED normVars

\* lines 57-59: KeyboardInterrupt raised at any position inside the try
\* block.  The handler returns np.concatenate(audio); what that raises
\* (audio unbound, audio empty) leaves record_audio as an exception that
\* main's except Exception catches.
Cancel ==
    /\ pc \in {"ra_start", "ra_open", "ra_read", "ra_append"}
    /\ cancel_pc' = pc
    /\ ra_outcome' = "cancelled"
    /\ streams' = IF pc \in {"ra_read", "ra_append"}
                  THEN InputStream_exit(streams) ELSE streams
    /\ IF ~audio.bound
       THEN MainError("UnboundLocalError") /\ UNCHANGED raw_audio
       ELSE IF concat_raises(audio.list)
       THEN MainError("ValueError") /\ UNCHANGED raw_audio
       ELSE /\ raw_audio' = np_concatenate(audio.list)
            /\ pc' = "normalize"
            /\ UNCHANGED <<report, err>>
    /\ UNCHANGED <<minutes, duration, audio, data, nread, nissued, clean_audio>>
    /\ UNCHANGED saveVars /\ UNCHANGED normVars

\* ---------------------------------------------------- main, after capture
\* np.max of a zero-size array raises ValueError
np_max_raises(n) == n = 0

\* noise reduction stage (lines 68-80); main never calls it
reduce_noise(b) == [b EXCEPT !.stages = Append(@, "reduce_noise")]

\* line 153: raw_audio = normalize_audio(raw_audio)
Normalize ==
    /\ pc = "normalize"
    /\ IF np_max_raises(Len(raw_audio.chunks))
       THEN MainError("ValueError") /\ UNCHANGED raw_audio
       ELSE /\ raw_audio' = [raw_audio EXCEPT !.stages = Append(@, "normalize")]
            /\ pc' = "reduce"
            /\ UNCHANGED <<report, err>>
    /\ UNCHANGED <<minutes, duration, clean_audio>>
    /\ UNCHANGED recVars /\ UNCHANGED saveVars /\ UNCHANGED normVars

\* line 156: clean_audio = (raw_audio)
AssignClean ==
    /\ pc = "reduce"
    /\ clean_audio' = raw_audio
    /\ pc' = "save"
    /\ UNCHANGED <<minutes, duration, raw_audio, report, err>>
    /\ UNCHANGED recVars /\ UNCHANGED saveVars /\ UNCHANGED normVars

\* ---------------------------------------------------------- save_recording
WriteOrder == <<"raw_wav", "clean_wav", "spec_raw", "spec_clean">>
WritePcSeq == <<"write_raw", "write_clean", "plot_raw", "plot_clean">>
WritePc(k) == WritePcSeq[k]
WritePcs == {WritePc(k) : k \in 1..4}
WriteIndex(p) == CHOOSE k \in 1..4 : WritePc(k) = p

\* line 111: the clock is read once
SaveBegin ==
    /\ pc = "save"
    /\ \E t \in Times : timestamp' = t
    /\ pc' = WritePc(1)
    /\ UNCHANGED <<minutes, duration, raw_audio, clean_audio, report, err,
                   attempted, files>>
    /\ UNCHANGED recVars /\ UNCHANGED normVars

\* the buffer the k-th artifact is made from (lines 116, 117, 120, 122)
SourceOf(k) ==
    IF k \in {1, 3} THEN Content("raw_audio", raw_audio)
    ELSE Content("clean_audio", clean_audio)

\* lines 116-123: the k-th write succeeds; after the fourth, save_recording
\* returns and main prints the saved summary (line 160)
WriteArtifact ==
    /\ pc \in WritePcs
    /\ LET k == WriteIndex(pc)
           a == WriteOrder[k]
       IN /\ attempted' = attempted \cup {a}
          /\ files' = files \cup
               {[artifact |-> a, path |-> save_paths(timestamp)[a], content |-> SourceOf(k)]}
          /\ IF k < 4
             THEN pc' = WritePc(k + 1) /\ UNCHANGED report
             ELSE pc' = "play" /\ report' = Append(report, "saved")
    /\ UNCHANGED <<minutes, duration, raw_audio, clean_audio, err, timestamp>>
    /\ UNCHANGED recVars /\ UNCHANGED normVars

\* lines 116-123: the k-th write raises; nothing in save_recording catches
\* it (plot_spectrogram logs and re-raises), main prints one error summary
WriteFails ==
    /\ pc \in WritePcs
    /\ attempted' = attempted \cup {WriteOrder[WriteIndex(pc)]}
    /\ MainError("PersistenceError")
    /\ UNCHANGED <<minutes, duration, raw_audio, clean_audio, timestamp, files>>
    /\ UNCHANGED recVars /\ UNCHANGED normVars

\* ---------------------------------------------------------------- playback
\* line 163: play_audio returns
PlayAudio ==
    /\ pc = "play"
    /\ pc' = "done"
    /\ UNCHANGED <<minutes, duration, raw_audio, clean_audio, report, err>>
    /\ UNCHANGED recVars /\ UNCHANGED saveVars /\ UNCHANGED normVars

\* lines 133-135: playback fails, logged and re-raised to main
PlayError ==
    /\ pc = "play"
    /\ MainError("PlaybackError")
    /\ UNCHANGED <<minutes, duration, raw_audio, clean_audio>>
    /\ UNCHANGED recVars /\ UNCHANGED saveVars /\ UNCHANGED normVars

Next ==
    \/ InputMinutes
    \/ InputInvalid
    \/ RecordBegin
    \/ OpenStream
    \/ OpenError
    \/ ReadReturn
    \/ ReadError
    \/ AppendChunk
    \/ LoopExit
    \/ Cancel
    \/ Normalize
    \/ AssignClean
    \/ SaveBegin
    \/ WriteArtifact
    \/ WriteFails
    \/ PlayAudio
    \/ PlayError

Spec == Init /\ [][Next]_vars

\* ----------------------------------------------------------- normalize_audio
\* Samples are rationals <<numerator, denominator>> in lowest terms with a
\* positive denominator.
RECURSIVE Gcd(_, _)
Gcd(a, b) == IF b = 0 THEN a ELSE Gcd(b, a % b)
IAbs(n) == IF n < 0 THEN 0 - n ELSE n
Reduce(n, d) ==
    LET g == Gcd(IAbs(n), IAbs(d))
        sgn == IF d < 0 THEN 0 - 1 ELSE 1
    IN <<(sgn * n) \div g, (sgn * d) \div g>>
Rabs(x) == <<IAbs(x[1]), x[2]>>
Rle(x, y) == x[1] * y[2] <= y[1] * x[2]
Rpositive(x) == x[1] > 0
\* x / m for m > 0
Rdiv(x, m) == Reduce(x[1] * m[2], x[2] * m[1])

\* np.abs and np.max over a sample sequence
np_abs(a) == [i \in 1..Len(a) |-> Rabs(a[i])]
np_max(a) == CHOOSE m \in {a[i] : i \in 1..Len(a)} : \A j \in 1..Len(a) : Rle(a[j], m)

\* lines 64-66
normalize_audio(a) ==
    IF np_max_raises(Len(a))
    THEN [raised |-> TRUE, value |-> <<>>]
    ELSE LET max_val == np_max(np_abs(a))
         IN [raised |-> FALSE,
             value |-> IF Rpositive(max_val)
                       THEN [i \in 1..Len(a) |-> Rdiv(a[i], max_val)]
                       ELSE a]

Samples == {<<n, 1>> : n \in (0 - MaxAmp) .. MaxAmp}
RECURSIVE SeqsOfLen(_)
SeqsOfLen(n) ==
    IF n = 0 THEN {<<>>}
    ELSE {Append(q, x) : q \in SeqsOfLen(n - 1), x \in Samples}
Buffers == UNION {SeqsOfLen(n) : n \in 0..MaxLen}

\* one call of normalize_audio on a buffer of the bounded input set
NormCall ==
    /\ npc = "idle"
    /\ \E a \in Buffers :
         /\ nbuf' = a
         /\ nres' = normalize_audio(a)
    /\ npc' = "called"
    /\ UNCHANGED <<pc, minutes, duration, raw_audio, clean_audio, report, err>>
    /\ UNCHANGED recVars /\ UNCHANGED saveVars

NormNext == NormCall
NormSpec == Init /\ [][NormNext]_vars

\* ------------------------------------------------------------------ claims
CaptureErrors == {"UnboundLocalError", "ValueError"}
Returned == raw_audio # NoBuffer
FirstChunks(k) == [i \in 1..k |-> i]

\* C1: a cancellation arriving at any point of record_audio, also before the
\* first chunk is appended, is never turned into a failure: record_audio
\* returns a buffer and main does not take its error branch because of it.
C1_CancelNeverFails ==
    ra_outcome = "cancelled" => (Returned /\ err \notin CaptureErrors)

\* C2: cancelled after k reads have returned, record_audio returns exactly
\* those k chunks in arrival order, and issues no read after the cancellation.
C2_CancelKeepsAllReadChunks ==
    ra_outcome = "cancelled" =>
        /\ Returned
        /\ raw_audio.chunks = FirstChunks(nread)
        /\ nissued = nread

\* C3: an uncancelled, error-free capture with d = minutes * 60 issues exactly
\* floor(max(d, 60) * 16000 / 512) reads and returns that many chunks of 512
\* samples; below the minimum that is 1875 reads and 960000 samples.
C3_CompletedLength ==
    ra_outcome = "completed" =>
        LET d == minutes * 60
            eff == IF d > 60 THEN d ELSE 60
            n == (eff * 16000) \div 512
        IN /\ nissued = n
           /\ nread = n
           /\ raw_audio.chunks = FirstChunks(n)
           /\ BufLen(raw_audio) = n * 512
           /\ d < 60 => (nissued = 1875 /\ BufLen(raw_audio) = 960000)

C3_Witness ==
    /\ ra_outcome = "completed"
    /\ minutes = 0
    /\ nissued = 1875
    /\ BufLen(raw_audio) = 960000

\* C4: the clean buffer handed to save_recording is the output of the noise
\* reduction stage applied to the normalized buffer; the stage is never skipped.
C4_CleanIsNoiseReduced ==
    pc \in WritePcs \cup {"play", "done"} => clean_audio = reduce_noise(raw_audio)

\* C5: a failing artifact write is isolated: the remaining artifacts are still
\* attempted and the outcome is reported per artifact.
C5_WriteFailureIsolated ==
    err = "PersistenceError" => attempted = Artifacts

\* C6: after a device error (open or read) or a failing processing stage the
\* session is aborted: save_recording is never entered, no artifact is written
\* and the error reaches main's error report.
C6_FailureAborts ==
    (ra_outcome = "raised" \/ (err = "ValueError" /\ ra_outcome = "completed")) =>
        /\ pc = "error"
        /\ report = <<"error">>
        /\ timestamp = 0 - 1
        /\ attempted = {}
        /\ files = {}

C6_Witness ==
    /\ ra_outcome = "raised"
    /\ err = "DeviceError"
    /\ nread > 0
    /\ pc = "error"

\* C7: the input stream is closed on every exit path of the capture loop; never
\* more than one stream is open and none is open outside the with block.
C7_StreamClosed ==
    /\ streams \in {0, 1}
    /\ pc \notin {"ra_read", "ra_append"} => streams = 0

C7_Witness ==
    /\ cancel_pc = "ra_append"
    /\ nread > 0
    /\ pc = "normalize"
    /\ streams = 0

\* C8: normalize_audio is total: with peak = max(|sample|) (0 for an empty
\* buffer), peak > 0 divides every sample by peak so the largest absolute value
\* is 1, and peak = 0 returns the buffer unchanged; it never raises.
RefPeak(a) == IF a = <<>> THEN <<0, 1>> ELSE np_max(np_abs(a))
C8_NormalizeTotal ==
    npc = "called" =>
        /\ ~nres.raised
        /\ Len(nres.value) = Len(nbuf)
        /\ IF Rpositive(RefPeak(nbuf))
           THEN /\ \A i \in 1..Len(nbuf) :
                     nres.value[i][1] * nbuf[i][2] * RefPeak(nbuf)[1]
                       = nbuf[i][1] * nres.value[i][2] * RefPeak(nbuf)[2]
                /\ \E i \in 1..Len(nbuf) : Rabs(nres.value[i]) = <<1, 1>>
                /\ \A i \in 1..Len(nbuf) : Rle(Rabs(nres.value[i]), <<1, 1>>)
           ELSE nres.value = nbuf

\* C9: the paths of all artifacts written by one save_recording carry the one
\* timestamp token read at its start, and each artifact is made from the
\* buffers of that session.
C9_OneTimestamp ==
    /\ \A f \in files :
         /\ f.path[3] = timestamp
         /\ f.content = IF f.artifact \in {"raw_wav", "spec_raw"}
                         THEN Content("raw_audio", raw_audio)
                         ELSE Content("clean_audio", clean_audio)
    /\ pc \in {"play", "done"} => {f.artifact : f \in files} = Artifacts

C9_Witness ==
    /\ pc = "done"
    /\ Cardinality(files) = 4
    /\ timestamp = 1

\* C10: cancellation takes effect only at a chunk-read boundary: the chunk of
\* the last completed read is in the accumulator when the loop stops.
C10_CancelAtBoundary ==
    (ra_outcome = "cancelled" /\ data > 0) =>
        (audio.list # <<>> /\ audio.list[Len(audio.list)] = data)
====
